---- MODULE Spec2Model ----
(***************************************************************************)
(* Model of package observability (massiva-agora/observability).           *)
(*                                                                         *)
(* The repository ships two builds of the package:                         *)
(*   - "memoized": src/unnamed/part_000, which resolves the GCP project id *)
(*     once into the package variable GCPProjectID and picks an explicit   *)
(*     sampler per branch;                                                 *)
(*   - "legacy":   src/observability.go, which calls getGcpProjectID(ctx)  *)
(*     at every use and leaves the sampler to the SDK default.             *)
(* The variable `variant` fixes which build the process runs.              *)
(***************************************************************************)
EXTENDS Integers, Sequences, FiniteSets, TLC

\* ---------------------------------------------------------------- bounds
NumCalls == 2          \* concurrently handled fiber calls
MaxBootstraps == 2     \* calls of NewLogrusAndTraceAwareFiberApp
MaxLookups == 2        \* metadata.ProjectIDWithContext calls are counted up to here
MaxShutdowns == 2      \* invocations of returned shutdown closures
MaxErrs == 2           \* length of SafeShutdown's variadic list

\* ------------------------------------------------------------ input sets
Variants == {"memoized", "legacy"}
\* values of the ENABLE_GCP_TRACING environment variable ("" = unset)
EnvValues == {"true", ""}
\* the project id the metadata server reports when it answers
MdProject == "acme-prod"
Nil == "<nil>"
ErrValues == {Nil, "deadline exceeded", "export failed"}
\* what TracerProvider.Shutdown may return
TpErrValues == {Nil, "flush timed out"}
Deadlines == {"ctx-5s", "ctx-bg"}
Calls == 1..NumCalls

\* trace ids are 16 bytes, span ids 8 bytes, trace flags one byte
ZeroTraceID == [i \in 1..16 |-> 0]
TraceA == <<75, 249, 47, 53, 119, 179, 77, 166, 163, 206, 146, 157, 14, 14, 71, 54>>
TraceB == [i \in 1..16 |-> IF i = 16 THEN 1 ELSE 0]
ZeroSpanID == [i \in 1..8 |-> 0]
SpanA == <<0, 240, 103, 170, 11, 169, 2, 183>>
SpanB == [i \in 1..8 |-> IF i = 1 THEN 255 ELSE 0]

\* oteltrace.SpanContext zero value and the span contexts a call may carry:
\* two valid ones (sampled; unsampled with another flag bit set) and an
\* invalid one (zero trace id); a context without a span yields the zero value
ZeroSpanContext == [traceID |-> ZeroTraceID, spanID |-> ZeroSpanID, flags |-> 0]
SpanContexts ==
    { [traceID |-> TraceA, spanID |-> SpanA, flags |-> 1],
      [traceID |-> TraceB, spanID |-> SpanB, flags |-> 2],
      [traceID |-> ZeroTraceID, spanID |-> SpanA, flags |-> 1] }
Contexts == {[hasSpan |-> FALSE, sc |-> ZeroSpanContext]}
            \cup {[hasSpan |-> TRUE, sc |-> s] : s \in SpanContexts}

\* ------------------------------------------------- library calls, as used
HexDigit == <<"0", "1", "2", "3", "4", "5", "6", "7",
              "8", "9", "a", "b", "c", "d", "e", "f">>

HexByte(b) == HexDigit[(b \div 16) + 1] \o HexDigit[(b % 16) + 1]

RECURSIVE HexString(_)
HexString(bytes) ==
    IF Len(bytes) = 0 THEN ""
    ELSE HexByte(Head(bytes)) \o HexString(Tail(bytes))

\* oteltrace.SpanFromContext(ctx).SpanContext(): a context without a span
\* yields the no-op span, whose SpanContext is the zero value
SpanFromContext(ctx) == IF ctx.hasSpan THEN ctx.sc ELSE ZeroSpanContext

IsValid(sc) ==
    /\ \E i \in DOMAIN sc.traceID : sc.traceID[i] # 0
    /\ \E i \in DOMAIN sc.spanID : sc.spanID[i] # 0

IsSampled(sc) == sc.flags % 2 = 1

\* ------------------------------------------------------------- loggers
TraceKey == "logging.googleapis.com/trace"
SpanIdKey == "logging.googleapis.com/spanId"
SampledKey == "logging.googleapis.com/traceSampled"

NoFields == [k \in {} |-> ""]

\* logrus.NewEntry(logrus.New())
PlainLogger == [base |-> "new", fields |-> NoFields]

\* logrus.WithFields(...) on the standard logger
WithFields(f) == [base |-> "std", fields |-> f]

VARIABLES
    variant,        \* which build of the package runs
    env,            \* os.Getenv("ENABLE_GCP_TRACING")
    phase,          \* "load" before package initialisation, then "ready"
    proc,           \* "running", or which logrus.Fatal ended the process
    GCPProjectID,   \* package variable of the memoized build
    lookups,        \* calls of metadata.ProjectIDWithContext so far (capped)
    propagator,     \* otel global text-map propagator
    globalTP,       \* otel global tracer provider: index into pipelines, 0 = none
    pipelines,      \* tracer providers built by setupOpenTelemetry
    lastSetup,      \* outcome of the latest setupOpenTelemetry call
    apps,           \* fiber apps returned by NewLogrusAndTraceAwareFiberApp
    calls,          \* per fiber.Ctx state
    shutdowns,      \* invocations of shutdown closures so far
    lastShutdown,   \* outcome of the latest shutdown closure invocation
    lastSafe        \* outcome of the latest SafeShutdown call

vars == <<variant, env, phase, proc, GCPProjectID, lookups, propagator, globalTP,
          pipelines, lastSetup, apps, calls, shutdowns, lastShutdown, lastSafe>>

NoProject == "<unset>"
NoSetup == [called |-> FALSE]
NoShutdown == [called |-> FALSE]
NoSafe == [called |-> FALSE]
IdleCall == [state |-> "idle"]

\* ------------------------------------------------------ getGcpProjectID
\* metadata.ProjectIDWithContext: the project id, or ("", err) on failure
MetadataProjectID(ok) == IF ok THEN MdProject ELSE ""

\* one more metadata call, counted up to MaxLookups
Counted(n) == IF n < MaxLookups THEN n + 1 ELSE n

\* memoized build: no lookup unless the flag is exactly "true"; the lookup's
\* error is discarded and its string result kept
getGcpProjectIDMemoized(flag, ok) ==
    IF flag = "true" THEN MetadataProjectID(ok) ELSE "local"

\* legacy build: always looks up; "" on error
getGcpProjectIDLegacy(ok) ==
    IF ok THEN MetadataProjectID(ok) ELSE ""

\* faulty version: the trace path is built from the span id instead of the trace id
newTraceAwareLogrusLoggerSpanPath(ctx, projectID) ==
    LET spanContext == SpanFromContext(ctx)
        traceId == "projects/" \o projectID \o "/traces/"
                       \o HexString(spanContext.spanID)
    IN  IF IsValid(spanContext)
        THEN WithFields((TraceKey :> traceId)
                        @@ (SpanIdKey :> HexString(spanContext.spanID))
                        @@ (SampledKey :> IsSampled(spanContext)))
        ELSE PlainLogger

\* faulty version: the fields are set whenever the context holds a span, valid or not
newTraceAwareLogrusLoggerAnySpan(ctx, projectID) ==
    LET spanContext == SpanFromContext(ctx)
        traceId == "projects/" \o projectID \o "/traces/"
                       \o HexString(spanContext.traceID)
    IN  IF ctx.hasSpan
        THEN WithFields((TraceKey :> traceId)
                        @@ (SpanIdKey :> HexString(spanContext.spanID))
                        @@ (SampledKey :> IsSampled(spanContext)))
        ELSE PlainLogger

\* ------------------------------------------- newTraceAwareLogrusLogger
\* projectID is GCPProjectID (memoized) or the value getGcpProjectID(ctx)
\* returned for this call (legacy)
newTraceAwareLogrusLogger(ctx, projectID) ==
    LET spanContext == SpanFromContext(ctx)
        traceId == "projects/" \o projectID \o "/traces/"
                       \o HexString(spanContext.traceID)
    IN  IF IsValid(spanContext)
        THEN WithFields((TraceKey :> traceId)
                        @@ (SpanIdKey :> HexString(spanContext.spanID))
                        @@ (SampledKey :> IsSampled(spanContext)))
        ELSE PlainLogger

\* c.Locals("logger") slot of a fiber.Ctx
NoLocal == [kind |-> "absent"]
EntryLocal(l) == [kind |-> "entry", entry |-> l]
OtherLocal == [kind |-> "other"]

\* faulty version: an unchecked type assertion, which panics on another type
GetLoggerOfUnchecked(slot) ==
    IF slot.kind = "entry" THEN slot.entry
    ELSE IF slot.kind = "other" THEN [base |-> "panic", fields |-> NoFields]
    ELSE PlainLogger

\* GetLogger: the stored value when it is a *logrus.Entry, else a new entry
GetLoggerOf(slot) ==
    IF slot.kind = "entry" THEN slot.entry ELSE PlainLogger

\* --------------------------------------------------- setupOpenTelemetry
ParentRatioSampler == "ParentBased(TraceIDRatioBased(0.01))"
AlwaysSampler == "AlwaysSample"
DefaultSampler == "sdk-default"

SetupError(flag, failAt) ==
    IF failAt = "none" THEN Nil
    ELSE IF flag # "true" /\ failAt = "exporter"
         THEN "failed to create trace exporter"
         ELSE "failed to create resource"

NewTracerProvider(build, flag, projectID) ==
    IF flag = "true"
    THEN [exporter |-> "gcp", project |-> projectID, resource |-> "gcp-detected",
          sampler |-> IF build = "memoized" THEN ParentRatioSampler
                      ELSE DefaultSampler,
          tpShutdowns |-> <<>>]
    ELSE [exporter |-> "otlp", project |-> NoProject, resource |-> "service-only",
          sampler |-> IF build = "memoized" THEN AlwaysSampler
                      ELSE DefaultSampler,
          tpShutdowns |-> <<>>]

\* faulty version: the propagator is installed before the construction steps run
setupOpenTelemetryEagerPropagator(build, flag, projectID, failAt, prop, gtp, tps) ==
    IF failAt # "none"
    THEN [err |-> SetupError(flag, failAt), shutdown |-> 0,
          propagator |-> "autoprop", globalTP |-> gtp, pipelines |-> tps]
    ELSE [err |-> Nil, shutdown |-> Len(tps) + 1,
          propagator |-> "autoprop", globalTP |-> Len(tps) + 1,
          pipelines |-> Append(tps, NewTracerProvider(build, flag, projectID))]

\* the result of setupOpenTelemetry and the otel globals it leaves behind;
\* tps is the list of providers built so far, shutdown the index of the
\* provider the returned closure closes over (0 = nil closure)
setupOpenTelemetry(build, flag, projectID, failAt, prop, gtp, tps) ==
    IF failAt # "none"
    THEN [err |-> SetupError(flag, failAt), shutdown |-> 0,
          propagator |-> prop, globalTP |-> gtp, pipelines |-> tps]
    ELSE [err |-> Nil, shutdown |-> Len(tps) + 1,
          propagator |-> "autoprop", globalTP |-> Len(tps) + 1,
          pipelines |-> Append(tps, NewTracerProvider(build, flag, projectID))]

\* ----------------------------------------------- the shutdown closure
\* fmt's %v rendering of a []error
RECURSIVE JoinWith(_, _)
JoinWith(strs, sep) ==
    IF Len(strs) = 0 THEN ""
    ELSE IF Len(strs) = 1 THEN strs[1]
    ELSE strs[1] \o sep \o JoinWith(Tail(strs), sep)

FormatErrs(errs) == "[" \o JoinWith(errs, " ") \o "]"

\* faulty version: the teardown error is collected but never returned
shutdownClosureSwallow(ctx, tpErr) ==
    [passed |-> <<ctx>>, result |-> Nil]

\* shutdown(ctx): calls tracerProvider.Shutdown(ctx), which returns tpErr;
\* passed is the list of contexts handed to TracerProvider.Shutdown
shutdownClosure(ctx, tpErr) ==
    LET errs == IF tpErr # Nil THEN <<tpErr>> ELSE <<>>
    IN  [passed |-> <<ctx>>,
         result |-> IF Len(errs) > 0
                    THEN "failed to shutdown: " \o FormatErrs(errs)
                    ELSE Nil]

\* --------------------------------------------------------- SafeShutdown
NonNil(errs) == SelectSeq(errs, LAMBDA e : e # Nil)

\* errors.Join: nil when every argument is nil, else the non-nil ones joined
Join(errs) ==
    IF Len(NonNil(errs)) = 0 THEN Nil ELSE JoinWith(NonNil(errs), "\n")

\* faulty version: only the first argument is inspected
SafeShutdownFatalFirstOnly(errs) == Len(errs) > 0 /\ errs[1] # Nil

\* whether SafeShutdown(errs...) reaches logrus.Fatal
SafeShutdownFatal(errs) == Join(errs) # Nil

ErrLists == UNION {[1..n -> ErrValues] : n \in 0..MaxErrs}

Init ==
    /\ variant \in Variants
    /\ env \in EnvValues
    /\ phase = "load"
    /\ proc = "running"
    /\ GCPProjectID = NoProject
    /\ lookups = 0
    /\ propagator = "default"
    /\ globalTP = 0
    /\ pipelines = <<>>
    /\ lastSetup = NoSetup
    /\ apps = 0
    /\ calls = [c \in Calls |-> IdleCall]
    /\ shutdowns = 0
    /\ lastShutdown = NoShutdown
    /\ lastSafe = NoSafe

\* var GCPProjectID = getGcpProjectID()  (package initialisation)
PackageInit ==
    /\ phase = "load"
    /\ proc = "running"
    /\ phase' = "ready"
    /\ \/ /\ variant = "memoized"
          /\ env = "true"
          /\ \E ok \in BOOLEAN :
                GCPProjectID' = getGcpProjectIDMemoized(env, ok)
          /\ lookups' = Counted(lookups)
       \/ /\ variant = "memoized"
          /\ env # "true"
          /\ GCPProjectID' = getGcpProjectIDMemoized(env, FALSE)
          /\ UNCHANGED lookups
       \/ /\ variant = "legacy"
          /\ UNCHANGED <<GCPProjectID, lookups>>
    /\ UNCHANGED <<variant, env, proc, propagator, globalTP, pipelines, lastSetup,
                   apps, calls, shutdowns, lastShutdown, lastSafe>>

\* NewLogrusAndTraceAwareFiberApp: builds the app, runs setupOpenTelemetry,
\* and exits the process through logrus.Fatal when that fails
NewLogrusAndTraceAwareFiberApp ==
    /\ phase = "ready"
    /\ proc = "running"
    /\ apps < MaxBootstraps
    /\ \E failAt \in {"none", "exporter", "resource"}, ok \in BOOLEAN :
        LET looksUp == variant = "legacy" /\ env = "true"
            projectID == IF variant = "memoized" THEN GCPProjectID
                         ELSE getGcpProjectIDLegacy(ok)
            r == setupOpenTelemetry(variant, env, projectID, failAt,
                                    propagator, globalTP, pipelines)
        IN  /\ ~looksUp => ok
            /\ lookups' = IF looksUp THEN Counted(lookups) ELSE lookups
            /\ propagator' = r.propagator
            /\ globalTP' = r.globalTP
            /\ pipelines' = r.pipelines
            /\ lastSetup' = [called |-> TRUE, err |-> r.err, shutdown |-> r.shutdown,
                             propBefore |-> propagator, tpBefore |-> globalTP,
                             appsBefore |-> apps]
            /\ IF r.err # Nil
               THEN /\ proc' = "fatal:setup"
                    /\ calls' = [c \in Calls |-> IdleCall]  \* os.Exit drops them
                    /\ UNCHANGED apps
               ELSE /\ apps' = apps + 1
                    /\ UNCHANGED <<proc, calls>>
    /\ UNCHANGED <<variant, env, phase, GCPProjectID, shutdowns,
                   lastShutdown, lastSafe>>

\* a call enters a handler chain carrying its user context
Arrive(c) ==
    /\ phase = "ready"
    /\ proc = "running"
    /\ calls[c].state = "idle"
    /\ \E ctx \in Contexts :
        calls' = [calls EXCEPT ![c] =
                    [state |-> "handling", ctx |-> ctx, attached |-> FALSE,
                     project |-> NoProject, locals |-> NoLocal, got |-> NoLocal]]
    /\ UNCHANGED <<variant, env, phase, proc, GCPProjectID, lookups, propagator,
                   globalTP, pipelines, lastSetup, apps, shutdowns, lastShutdown,
                   lastSafe>>

\* newTraceAwareLogrusLoggerMiddleware's handler, installed by the app
Attach(c) ==
    /\ proc = "running"
    /\ apps > 0
    /\ calls[c].state = "handling"
    /\ ~calls[c].attached
    /\ calls[c].locals = NoLocal
    /\ calls[c].got = NoLocal      \* app.Use: runs before any route handler
    /\ \E ok \in BOOLEAN :
        LET looksUp == variant = "legacy" /\ IsValid(SpanFromContext(calls[c].ctx))
            projectID == IF variant = "memoized" THEN GCPProjectID
                         ELSE IF looksUp THEN getGcpProjectIDLegacy(ok)
                         ELSE NoProject
        IN  /\ ~looksUp => ok
            /\ lookups' = IF looksUp THEN Counted(lookups) ELSE lookups
            /\ calls' = [calls EXCEPT ![c].attached = TRUE,
                                      ![c].project = projectID,
                                      ![c].locals = EntryLocal(
                                          newTraceAwareLogrusLogger(calls[c].ctx,
                                                                    projectID))]
    /\ UNCHANGED <<variant, env, phase, proc, GCPProjectID, propagator, globalTP,
                   pipelines, lastSetup, apps, shutdowns, lastShutdown, lastSafe>>

\* a chain that bypasses the middleware and keeps something else under "logger"
StoreOther(c) ==
    /\ proc = "running"
    /\ calls[c].state = "handling"
    /\ ~calls[c].attached
    /\ calls[c].locals = NoLocal
    /\ calls[c].got = NoLocal
    /\ calls' = [calls EXCEPT ![c].locals = OtherLocal]
    /\ UNCHANGED <<variant, env, phase, proc, GCPProjectID, lookups, propagator,
                   globalTP, pipelines, lastSetup, apps, shutdowns, lastShutdown,
                   lastSafe>>

\* GetLogger(c), called by a downstream handler
GetLogger(c) ==
    /\ proc = "running"
    /\ calls[c].state = "handling"
    /\ calls' = [calls EXCEPT ![c].got = EntryLocal(GetLoggerOf(calls[c].locals))]
    /\ UNCHANGED <<variant, env, phase, proc, GCPProjectID, lookups, propagator,
                   globalTP, pipelines, lastSetup, apps, shutdowns, lastShutdown,
                   lastSafe>>

\* the call completes and its fiber.Ctx is released
Complete(c) ==
    /\ proc = "running"
    /\ calls[c].state = "handling"
    /\ calls' = [calls EXCEPT ![c] = IdleCall]
    /\ UNCHANGED <<variant, env, phase, proc, GCPProjectID, lookups, propagator,
                   globalTP, pipelines, lastSetup, apps, shutdowns, lastShutdown,
                   lastSafe>>

\* the closure returned by bootstrap i, invoked by the caller
Shutdown(i) ==
    /\ proc = "running"
    /\ i \in 1..Len(pipelines)
    /\ shutdowns < MaxShutdowns
    /\ \E ctx \in Deadlines, tpErr \in TpErrValues :
        LET r == shutdownClosure(ctx, tpErr)
        IN  /\ pipelines' = [pipelines EXCEPT
                                ![i].tpShutdowns = @ \o r.passed]
            /\ lastShutdown' = [called |-> TRUE, pipeline |-> i, ctx |-> ctx,
                                tpErr |-> tpErr, result |-> r.result,
                                tpCallsBefore |-> Len(pipelines[i].tpShutdowns)]
    /\ shutdowns' = shutdowns + 1
    /\ UNCHANGED <<variant, env, phase, proc, GCPProjectID, lookups, propagator,
                   globalTP, lastSetup, apps, calls, lastSafe>>

\* SafeShutdown(errs...)
SafeShutdown ==
    /\ phase = "ready"
    /\ proc = "running"
    /\ \E errs \in ErrLists :
        /\ lastSafe' = [called |-> TRUE, errs |-> errs]
        /\ proc' = IF SafeShutdownFatal(errs) THEN "fatal:shutdown" ELSE proc
        /\ calls' = IF SafeShutdownFatal(errs) THEN [c \in Calls |-> IdleCall]
                    ELSE calls
    /\ UNCHANGED <<variant, env, phase, GCPProjectID, lookups, propagator,
                   globalTP, pipelines, lastSetup, apps, shutdowns,
                   lastShutdown>>

NextStop ==
    \/ PackageInit
    \/ NewLogrusAndTraceAwareFiberApp
    \/ \E i \in 1..MaxBootstraps : Shutdown(i)
    \/ SafeShutdown

Next ==
    \/ PackageInit
    \/ NewLogrusAndTraceAwareFiberApp
    \/ \E c \in Calls : Arrive(c)
    \/ \E c \in Calls : Attach(c)
    \/ \E c \in Calls : StoreOther(c)
    \/ \E c \in Calls : GetLogger(c)
    \/ \E c \in Calls : Complete(c)

\* process start, bootstrap and concurrently handled calls
Spec == Init /\ [][Next]_vars

\* process start, bootstrap and teardown
SpecStop == Init /\ [][NextStop]_vars

\* ====================================================================
\* Properties
\* ====================================================================
TraceFieldKeys == {TraceKey, SpanIdKey, SampledKey}

Attached(c) == calls[c].state = "handling" /\ calls[c].attached

ValidSpan(c) == IsValid(SpanFromContext(calls[c].ctx))

\* the project identifier resolved for call c's logger
ResolvedProject(c) ==
    IF variant = "memoized" THEN GCPProjectID ELSE calls[c].project

\* the three fields a logger for call c must carry when its span is valid
ExpectedFields(c) ==
    LET sc == SpanFromContext(calls[c].ctx)
    IN  (TraceKey :> ("projects/" \o ResolvedProject(c) \o "/traces/"
                        \o HexString(sc.traceID)))
        @@ (SpanIdKey :> HexString(sc.spanID))
        @@ (SampledKey :> (sc.flags \in {1, 3}))

\* C1: a logger built from a context with a valid span (trace id T, span id
\* S, sampled flag B) under resolved project P carries exactly the trace
\* field "projects/P/traces/T", the span-id field S and the sampled field B
C1_ValidSpanFields ==
    \A c \in Calls :
        (Attached(c) /\ ValidSpan(c)) =>
            /\ calls[c].locals.kind = "entry"
            /\ calls[c].locals.entry.fields = ExpectedFields(c)

C1_Witness ==
    \E c \in Calls :
        /\ Attached(c)
        /\ calls[c].ctx.sc.traceID = TraceA
        /\ calls[c].locals.entry.fields[TraceKey]
               = "projects/local/traces/4bf92f3577b34da6a3ce929d0e0e4736"
        /\ calls[c].locals.entry.fields[SpanIdKey] = "00f067aa0ba902b7"
        /\ calls[c].locals.entry.fields[SampledKey] = TRUE

\* C2: a logger built from a context with no active span, or with a span
\* context that is not valid, has none of the three trace fields
C2_NoSpanNoFields ==
    \A c \in Calls :
        (Attached(c) /\ (~calls[c].ctx.hasSpan \/ ~ValidSpan(c))) =>
            /\ calls[c].locals.kind = "entry"
            /\ DOMAIN calls[c].locals.entry.fields \cap TraceFieldKeys = {}

C2_Witness ==
    \E c, d \in Calls :
        /\ Attached(c) /\ ~calls[c].ctx.hasSpan
        /\ Attached(d) /\ calls[d].ctx.hasSpan /\ ~ValidSpan(d)
        /\ calls[d].ctx.sc.traceID = ZeroTraceID

\* C3: with the flag set and the metadata lookup failed the project
\* identifier is the sentinel "local"; the identifier is never empty and no
\* logger carries a trace path "projects//traces/<traceId>"
C3_ProjectNeverEmpty ==
    /\ (variant = "memoized" /\ phase = "ready") =>
            /\ GCPProjectID # ""
            /\ (env = "true" /\ GCPProjectID # MdProject) => GCPProjectID = "local"
    /\ \A i \in 1..Len(pipelines) : pipelines[i].project # ""
    /\ \A c \in Calls :
        (Attached(c) /\ ValidSpan(c)) =>
            /\ ResolvedProject(c) # ""
            /\ calls[c].locals.entry.fields[TraceKey]
                   # "projects//traces/"
                       \o HexString(SpanFromContext(calls[c].ctx).traceID)

\* C4: when ENABLE_GCP_TRACING is not "true" the project identifier is the
\* sentinel "local" and the metadata service is never called, neither at
\* start-up, nor during bootstrap, nor while building a per-request logger
C4_FlagOffNoLookup ==
    env # "true" =>
        /\ lookups = 0
        /\ (variant = "memoized" /\ phase = "ready") => GCPProjectID = "local"
        /\ \A c \in Calls :
            (Attached(c) /\ ValidSpan(c)) => ResolvedProject(c) = "local"

\* DeploymentContext.isCloud for the pipeline p: the flag is set and the
\* metadata lookup answered
IsCloud(p) == env = "true" /\ p.project = MdProject

\* C5: the pipeline is a two-way switch on isCloud: cloud exporter bound to
\* the resolved project with the parent-based 1-in-100 sampler when isCloud,
\* OTLP/gRPC exporter with the always-sample policy otherwise
C5_PipelineByIsCloud ==
    \A i \in 1..Len(pipelines) :
        LET p == pipelines[i]
        IN  IF IsCloud(p)
            THEN p.exporter = "gcp" /\ p.sampler = ParentRatioSampler
            ELSE p.exporter = "otlp" /\ p.sampler = AlwaysSampler

\* C6: under any interleaving of calls GetLogger(c) returns, for a call the
\* middleware ran on, the logger computed from that call's own context, and
\* otherwise (attachment skipped, or another type in the slot) a plain
\* logger without trace fields
C6_GetLoggerOwnCall ==
    \A c \in Calls :
        (calls[c].state = "handling" /\ calls[c].got # NoLocal) =>
            /\ calls[c].got.kind = "entry"
            /\ IF calls[c].attached
               THEN /\ calls[c].got.entry = calls[c].locals.entry
                    /\ calls[c].got.entry.fields =
                           IF ValidSpan(c) THEN ExpectedFields(c) ELSE NoFields
               ELSE /\ calls[c].got.entry.base = "new"
                    /\ calls[c].got.entry.fields = NoFields

C6_Witness ==
    \E c, d \in Calls :
        /\ Attached(c) /\ ValidSpan(c) /\ calls[c].got # NoLocal
        /\ calls[c].ctx.sc.traceID = TraceA
        /\ calls[c].got.entry.fields[SpanIdKey] = "00f067aa0ba902b7"
        /\ calls[d].state = "handling" /\ calls[d].locals = OtherLocal
        /\ calls[d].got # NoLocal

SetupFailed == lastSetup.called /\ lastSetup.err # Nil

\* C7: a failed construction step makes setupOpenTelemetry return an error
\* and no shutdown function and leaves the global propagator and tracer
\* provider untouched; the process then exits, no app is returned and no
\* call is in progress afterwards
C7_FailedBootstrapAborts ==
    SetupFailed =>
        /\ lastSetup.shutdown = 0
        /\ propagator = lastSetup.propBefore
        /\ globalTP = lastSetup.tpBefore
        /\ Len(pipelines) = lastSetup.appsBefore
        /\ apps = lastSetup.appsBefore
        /\ proc = "fatal:setup"
        /\ \A c \in Calls : calls[c].state = "idle"

C7_Witness ==
    /\ SetupFailed
    /\ lastSetup.err = "failed to create trace exporter"
    /\ lastSetup.propBefore = "autoprop"
    /\ lastSetup.tpBefore = 1

\* calls of TracerProvider.Shutdown over all providers built so far
RECURSIVE TotalTpShutdowns(_)
TotalTpShutdowns(tps) ==
    IF Len(tps) = 0 THEN 0
    ELSE Len(Head(tps).tpShutdowns) + TotalTpShutdowns(Tail(tps))

\* C8: the shutdown closure hands the caller's context to the tracer
\* provider's Shutdown exactly once per call and returns nil exactly when
\* that teardown returned no error; a teardown error is part of the error
\* it returns
C8_ShutdownClosure ==
    /\ lastShutdown.called =>
        LET tp == pipelines[lastShutdown.pipeline]
        IN  /\ Len(tp.tpShutdowns) = lastShutdown.tpCallsBefore + 1
            /\ tp.tpShutdowns[Len(tp.tpShutdowns)] = lastShutdown.ctx
            /\ (lastShutdown.result = Nil) <=> (lastShutdown.tpErr = Nil)
            /\ lastShutdown.tpErr # Nil =>
                   lastShutdown.result
                       = "failed to shutdown: [" \o lastShutdown.tpErr \o "]"
    /\ TotalTpShutdowns(pipelines) = shutdowns

C8_Witness ==
    /\ lastShutdown.called
    /\ lastShutdown.tpErr = "flush timed out"
    /\ lastShutdown.ctx = "ctx-5s"
    /\ shutdowns = MaxShutdowns

\* C9: SafeShutdown terminates the process exactly when one of its
\* arguments, in any position, is a non-nil error
C9_SafeShutdownIff ==
    lastSafe.called =>
        ((proc = "fatal:shutdown")
            <=> (\E i \in DOMAIN lastSafe.errs : lastSafe.errs[i] # Nil))

C9_Witness ==
    /\ lastSafe.called
    /\ Len(lastSafe.errs) = 2
    /\ lastSafe.errs[1] = Nil
    /\ lastSafe.errs[2] # Nil
    /\ proc = "fatal:shutdown"

\* C10: the project identifier is resolved once: the metadata service is
\* called at most once in a process lifetime, and the exporter and every
\* logger use the identifier that was resolved at process start
C10_ResolvedOnce ==
    /\ lookups <= 1
    /\ \A c, d \in Calls :
        (Attached(c) /\ ValidSpan(c) /\ Attached(d) /\ ValidSpan(d)) =>
            ResolvedProject(c) = ResolvedProject(d)
    /\ \A i \in 1..Len(pipelines), c \in Calls :
        (pipelines[i].exporter = "gcp" /\ Attached(c) /\ ValidSpan(c)) =>
            pipelines[i].project = ResolvedProject(c)
====
